---- MODULE Spec2Model ----
(***************************************************************************)
(* HomeOps Doctor: the health classifier (analyze_health), the report      *)
(* builder (build_report) and the request handlers that call them.         *)
(*                                                                         *)
(* Python values are modelled as tagged records: None is [t |-> "none"],   *)
(* a string is [t |-> "str", s |-> ...], a dict is a function whose DOMAIN *)
(* is the set of keys present (a missing key is absent from the DOMAIN).   *)
(* An entity_id is a sequence of one-character strings, so that the test   *)
(* `"." in entity_id` and `entity_id.split(".")[0]` are computed.          *)
(***************************************************************************)
EXTENDS Integers, Sequences, FiniteSets, TLC

VARIABLES states, pc, health, report, data, upstream, calls, running,
          SUPERVISOR_TOKEN

vars == <<states, pc, health, report, data, upstream, calls, running,
          SUPERVISOR_TOKEN>>

(***************************************************************************)
(* Bounds.                                                                 *)
(***************************************************************************)
\* longest snapshot drawn from the catalogue of well-formed records
MaxStates == 6
\* longest snapshot drawn from every record shape (missing / null fields)
MaxAnyStates == 1

(***************************************************************************)
(* Python values.                                                          *)
(***************************************************************************)
None == [t |-> "none"]
Str(s) == [t |-> "str", s |-> s]
\* a string kept as the sequence of its characters
Chars(c) == [t |-> "str", c |-> c]
Dict(d) == [t |-> "dict", d |-> d]
EmptyDict == <<>>

\* bool(v) for None and for strings (the only values tested for truth)
Truthy(v) == v.t = "str" /\ v.s # ""

\* dict.get(key, default)
Get(d, key, default) == IF key \in DOMAIN d THEN d[key] ELSE default

(***************************************************************************)
(* Strings that the code splits or compares character by character.        *)
(***************************************************************************)
c_light == <<"l", "i", "g", "h", "t">>
c_switch == <<"s", "w", "i", "t", "c", "h">>
c_lock == <<"l", "o", "c", "k">>
c_climate == <<"c", "l", "i", "m", "a", "t", "e">>
c_cover == <<"c", "o", "v", "e", "r">>
c_fan == <<"f", "a", "n">>
c_media_player == <<"m", "e", "d", "i", "a", "_", "p", "l", "a", "y", "e", "r">>
c_unknown == <<"u", "n", "k", "n", "o", "w", "n">>
c_update == <<"u", "p", "d", "a", "t", "e">>
c_sensor == <<"s", "e", "n", "s", "o", "r">>
c_dot == <<".">>

IMPORTANT_DOMAINS ==
    {c_light, c_switch, c_lock, c_climate, c_cover, c_fan, c_media_player}

\* index of the first "." of a character sequence, 0 when there is none
RECURSIVE FirstDot(_, _)
FirstDot(s, i) ==
    IF i > Len(s) THEN 0
    ELSE IF s[i] = "." THEN i
    ELSE FirstDot(s, i + 1)

\* mutant: rsplit(".", 1)[0], the part before the last "."
DomainOf_rsplit(entity_id) ==
    LET dots == {i \in 1..Len(entity_id) : entity_id[i] = "."}
    IN IF dots # {}
       THEN SubSeq(entity_id, 1, (CHOOSE i \in dots : \A j \in dots : j <= i) - 1)
       ELSE c_unknown

\* entity_id.split(".")[0] if "." in entity_id else "unknown"
DomainOf(entity_id) ==
    IF FirstDot(entity_id, 1) # 0
    THEN SubSeq(entity_id, 1, FirstDot(entity_id, 1) - 1)
    ELSE c_unknown

(***************************************************************************)
(* analyze_health: the loop body, one record at a time.                    *)
(***************************************************************************)
\* the four accumulators of analyze_health before the loop; raised names the
\* exception that ended the call, "" while none has
EmptyAcc ==
    [unavailable |-> <<>>, critical_unavailable |-> <<>>,
     by_domain |-> <<>>, updates |-> <<>>, raised |-> ""]

\* entity_state in ("unavailable", "unknown")
IsUnavailable(entity_state) == entity_state.s \in {"unavailable", "unknown"}

\* mutant: the truth test of installed left out
IsUpdateAvailable_no_installed(entity_state, latest, installed) ==
    \/ entity_state.s = "on"
    \/ (Truthy(latest) /\ latest # installed)

\* entity_state == "on" or (latest and installed and latest != installed)
IsUpdateAvailable(entity_state, latest, installed) ==
    \/ entity_state.s = "on"
    \/ (Truthy(latest) /\ Truthy(installed) /\ latest # installed)

\* by_domain[domain].append(entity_id) on a defaultdict(list): the bucket of
\* a new domain is created at the end, in insertion order
BucketAppend(by_domain, domain, entity_id) ==
    IF \E i \in 1..Len(by_domain) : by_domain[i].domain = domain
    THEN [i \in 1..Len(by_domain) |->
            IF by_domain[i].domain = domain
            THEN [by_domain[i] EXCEPT !.entities = Append(@, entity_id)]
            ELSE by_domain[i]]
    ELSE Append(by_domain, [domain |-> domain, entities |-> <<entity_id>>])

\* mutant: the important-domain test dedented out of the unavailable block
TrackUnavailable_dedent(acc, entity_id, entity_state, domain) ==
    LET acc1 == IF IsUnavailable(entity_state)
                THEN [acc EXCEPT
                        !.unavailable = Append(@, entity_id),
                        !.by_domain = BucketAppend(@, domain, entity_id)]
                ELSE acc
    IN IF domain \in IMPORTANT_DOMAINS
       THEN [acc1 EXCEPT !.critical_unavailable = Append(@, entity_id)]
       ELSE acc1

\* the unavailable block of the loop body
TrackUnavailable(acc, entity_id, entity_state, domain) ==
    IF IsUnavailable(entity_state)
    THEN [acc EXCEPT
            !.unavailable = Append(@, entity_id),
            !.by_domain = BucketAppend(@, domain, entity_id),
            !.critical_unavailable =
                IF domain \in IMPORTANT_DOMAINS THEN Append(@, entity_id) ELSE @]
    ELSE acc

\* mutant: the updates block under `elif`, skipped for an unavailable entity
TrackUpdates_elif(acc, entity_id, entity_state, attrs, domain) ==
    IF IsUnavailable(entity_state) \/ domain # c_update THEN acc
    ELSE IF attrs.t # "dict" THEN [acc EXCEPT !.raised = "AttributeError"]
    ELSE LET latest == Get(attrs.d, "latest_version", None)
             installed == Get(attrs.d, "installed_version", None)
         IN IF IsUpdateAvailable(entity_state, latest, installed)
            THEN [acc EXCEPT !.updates =
                    Append(@, [entity_id |-> entity_id,
                               installed |-> installed,
                               latest |-> latest])]
            ELSE acc

\* the updates block of the loop body; attrs.get raises AttributeError when
\* the record carries "attributes": null
TrackUpdates(acc, entity_id, entity_state, attrs, domain) ==
    IF domain # c_update THEN acc
    ELSE IF attrs.t # "dict" THEN [acc EXCEPT !.raised = "AttributeError"]
    ELSE LET latest == Get(attrs.d, "latest_version", None)
             installed == Get(attrs.d, "installed_version", None)
         IN IF IsUpdateAvailable(entity_state, latest, installed)
            THEN [acc EXCEPT !.updates =
                    Append(@, [entity_id |-> entity_id,
                               installed |-> installed,
                               latest |-> latest])]
            ELSE acc

\* one iteration of `for state in states`; `"." in entity_id` raises
\* TypeError when the record carries "entity_id": null
LoopBody(acc, state) ==
    LET entity_id == Get(state, "entity_id", Chars(<<>>))
        raw_state == Get(state, "state", None)
        entity_state == IF Truthy(raw_state) THEN raw_state ELSE Str("")
        attrs == Get(state, "attributes", Dict(EmptyDict))
    IN IF entity_id.t # "str" THEN [acc EXCEPT !.raised = "TypeError"]
       ELSE LET domain == DomainOf(entity_id.c)
                acc1 == TrackUnavailable(acc, entity_id.c, entity_state, domain)
            IN TrackUpdates(acc1, entity_id.c, entity_state, attrs, domain)

\* the for loop, left to right; an exception ends it
RECURSIVE Loop(_, _)
Loop(acc, rest) ==
    IF rest = <<>> \/ acc.raised # "" THEN acc
    ELSE Loop(LoopBody(acc, Head(rest)), Tail(rest))

(***************************************************************************)
(* analyze_health: severity, the sorted domain counts, the summary.        *)
(***************************************************************************)
CRITICAL_THRESHOLD == 5

\* mutant: the threshold compared with > instead of >=
SeverityOf_gt(critical_unavailable, updates) ==
    IF Len(critical_unavailable) > CRITICAL_THRESHOLD THEN "critical"
    ELSE IF critical_unavailable # <<>> \/ updates # <<>> THEN "warning"
    ELSE "healthy"

\* if len(critical_unavailable) >= 5 ... elif critical_unavailable or updates
SeverityOf(critical_unavailable, updates) ==
    IF Len(critical_unavailable) >= CRITICAL_THRESHOLD THEN "critical"
    ELSE IF critical_unavailable # <<>> \/ updates # <<>> THEN "warning"
    ELSE "healthy"

\* mutant: an item goes before the items of equal key (ties reversed)
RECURSIVE InsertByLenDesc_unstable(_, _)
InsertByLenDesc_unstable(sorted, item) ==
    IF sorted = <<>> THEN <<item>>
    ELSE IF Len(Head(sorted).entities) > Len(item.entities)
         THEN <<Head(sorted)>> \o InsertByLenDesc_unstable(Tail(sorted), item)
         ELSE <<item>> \o sorted

\* sorted(..., key=len(item[1]), reverse=True) is stable: an item goes after
\* every item whose key is greater than or equal to its own
RECURSIVE InsertByLenDesc(_, _)
InsertByLenDesc(sorted, item) ==
    IF sorted = <<>> THEN <<item>>
    ELSE IF Len(Head(sorted).entities) >= Len(item.entities)
         THEN <<Head(sorted)>> \o InsertByLenDesc(Tail(sorted), item)
         ELSE <<item>> \o sorted

RECURSIVE SortedByLenDesc(_)
SortedByLenDesc(items) ==
    IF items = <<>> THEN <<>>
    ELSE InsertByLenDesc(SortedByLenDesc(SubSeq(items, 1, Len(items) - 1)),
                         items[Len(items)])

\* {domain: len(entities) for domain, entities in sorted(by_domain.items(), ...)}
\* an ordered dict, kept as the sequence of its items
SortedDomainCounts(by_domain) ==
    LET sorted == SortedByLenDesc(by_domain)
    IN [i \in 1..Len(sorted) |->
            [domain |-> sorted[i].domain, count |-> Len(sorted[i].entities)]]

\* the call either raises (raised names the exception) or returns the summary
\* (value)
analyze_health(sts) ==
    LET acc == Loop(EmptyAcc, sts)
    IN IF acc.raised # "" THEN [raised |-> acc.raised]
       ELSE [raised |-> "",
             value |->
                [severity |-> SeverityOf(acc.critical_unavailable, acc.updates),
                 unavailable |->
                    [total_count |-> Len(acc.unavailable),
                     critical_count |-> Len(acc.critical_unavailable),
                     by_domain |-> SortedDomainCounts(acc.by_domain)],
                 updates |-> [count |-> Len(acc.updates), items |-> acc.updates]]]

(***************************************************************************)
(* build_report.  A text is the sequence of its parts: a literal, a        *)
(* formatted integer, or a formatted domain name.                          *)
(***************************************************************************)
Lit(s) == [lit |-> s]
Num(n) == [num |-> n]
Dom(d) == [dom |-> d]

HealthyReport ==
    [headline |-> <<Lit("No critical issues detected")>>,
     description |-> <<Lit("All core devices appear to be operating normally.")>>,
     start_here |-> <<>>,
     details |-> <<>>]

\* the start_here list of the non-healthy report
StartHere ==
    <<"Check whether the affected integration(s) show errors in Settings -> Devices & services.",
      "If the affected devices are Zigbee/Z-Wave, verify the coordinator is online and not rebooting.",
      "If this started after an update or restart, review what changed recently before rebooting repeatedly.">>

\* mutant: the fallback to the top domain left out
Impacted_no_fallback(by_domain) ==
    SelectSeq(by_domain, LAMBDA e : e.domain \in IMPORTANT_DOMAINS)

\* [f"{domain} ({count})" for domain, count in by_domain.items()
\*  if domain in IMPORTANT_DOMAINS], then the top domain when that is empty
Impacted(by_domain) ==
    LET important == SelectSeq(by_domain, LAMBDA e : e.domain \in IMPORTANT_DOMAINS)
    IN IF important = <<>> /\ by_domain # <<>> THEN <<by_domain[1]>> ELSE important

\* ", ".join(impacted)
RECURSIVE Join(_)
Join(impacted) ==
    IF impacted = <<>> THEN <<>>
    ELSE LET e == Head(impacted)
             one == <<Dom(e.domain), Lit(" ("), Num(e.count), Lit(")")>>
         IN IF Len(impacted) = 1 THEN one
            ELSE one \o <<Lit(", ")>> \o Join(Tail(impacted))

\* "Most affected domains: " + ", ".join(impacted) if impacted else ""
Details(by_domain) ==
    IF Impacted(by_domain) # <<>>
    THEN <<Lit("Most affected domains: ")>> \o Join(Impacted(by_domain))
    ELSE <<>>

\* mutant: pending updates take the headline before the critical count
build_report_updates_first(h) ==
    IF h.severity = "healthy" THEN HealthyReport
    ELSE [headline |->
            IF h.updates.count > 0
            THEN <<Num(h.updates.count), Lit(" updates pending")>>
            ELSE <<Num(h.unavailable.critical_count),
                   Lit(" critical devices unavailable")>>,
          description |-> <<Lit("Core device domains (lights, climate, locks, media) are unavailable. This usually indicates an integration outage, coordinator issue, or network/device power problem.")>>,
          start_here |-> StartHere,
          details |-> Details(h.unavailable.by_domain)]

\* mutant: the early return of the healthy report left out
build_report_no_early_return(h) ==
    [headline |-> <<Num(h.unavailable.critical_count),
                    Lit(" critical devices unavailable")>>,
     description |-> <<Lit("Core device domains (lights, climate, locks, media) are unavailable. This usually indicates an integration outage, coordinator issue, or network/device power problem.")>>,
     start_here |-> StartHere,
     details |-> Details(h.unavailable.by_domain)]

build_report(h) ==
    IF h.severity = "healthy" THEN HealthyReport
    ELSE [headline |-> <<Num(h.unavailable.critical_count),
                         Lit(" critical devices unavailable")>>,
          description |-> <<Lit("Core device domains (lights, climate, locks, media) are unavailable. This usually indicates an integration outage, coordinator issue, or network/device power problem.")>>,
          start_here |-> StartHere,
          details |-> Details(h.unavailable.by_domain)]

(***************************************************************************)
(* The snapshots the upstream /states endpoint can return.                 *)
(***************************************************************************)
id_light == c_light \o c_dot \o <<"k">>
id_switch == c_switch \o c_dot \o <<"p">>
id_sensor == c_sensor \o c_dot \o <<"t">>
id_update == c_update \o c_dot \o <<"f", "o", "o">>
id_nodomain == <<"n", "o", "d", "o", "m", "a", "i", "n">>
id_abc == <<"a", ".", "b", ".", "c">>

Rec(id, st, attrs) ==
    [entity_id |-> Chars(id), state |-> Str(st), attributes |-> Dict(attrs)]

\* well-formed records: two important domains, one other domain and a pending
\* update
CoreRecords ==
    {Rec(id_light, "unavailable", EmptyDict),
     Rec(id_switch, "unknown", EmptyDict),
     Rec(id_sensor, "unavailable", EmptyDict),
     Rec(id_update, "on",
         [installed_version |-> Str("1.0"), latest_version |-> Str("1.1")])}

\* attribute dicts: no version key, equal versions, different versions, an
\* empty latest_version, a missing installed_version
AttrDicts ==
    {EmptyDict,
     [installed_version |-> Str("1.0"), latest_version |-> Str("1.0")],
     [installed_version |-> Str("1.0"), latest_version |-> Str("1.1")],
     [installed_version |-> Str("1.0"), latest_version |-> Str("")],
     [latest_version |-> Str("1.1")]}

FieldVals(k) ==
    IF k = "entity_id"
    THEN {None, Chars(id_light), Chars(id_update), Chars(id_nodomain),
          Chars(id_abc)}
    ELSE IF k = "state"
    THEN {None, Str("on"), Str("off"), Str("unavailable")}
    ELSE {None} \cup {Dict(a) : a \in AttrDicts}

\* every record shape: each of entity_id, state, attributes missing, null or set
AnyRecords ==
    LET keys == {"entity_id", "state", "attributes"}
    IN UNION {{f \in [D -> UNION {FieldVals(k) : k \in keys}] :
                    \A k \in D : f[k] \in FieldVals(k)} : D \in SUBSET keys}

Records == AnyRecords \cup CoreRecords

\* the upstream /config object
Config == [version |-> "2024.1.0"]

Outcomes == {"ok", "config_error", "states_error"}

(***************************************************************************)
(* State.                                                                  *)
(*   states    the snapshot /states returns                                *)
(*   pc        "input" while the snapshot is drawn, then the call made     *)
(*   health    the summary analyze_health returned                         *)
(*   report    the report build_report returned                            *)
(*   data      the response of a request handler                           *)
(*   upstream  what the upstream did during the request                    *)
(*   calls     the calls the handler made, in order                        *)
(*   running   the process that runs: "app" (app/__init__.py), "main"      *)
(*             (app/main.py), "server" (server.py), or "" while the        *)
(*             analyzer is called as a library and no process serves       *)
(*   SUPERVISOR_TOKEN  the credential the process found in its environment *)
(*             at start, "" when it is absent                              *)
(***************************************************************************)
NoValue == [t |-> "none"]

\* what the environment can hold for SUPERVISOR_TOKEN
Tokens == {"", "secret"}

Init ==
    /\ states = <<>>
    /\ pc = "input"
    /\ health = NoValue
    /\ report = NoValue
    /\ data = NoValue
    /\ upstream = ""
    /\ calls = <<>>
    /\ running = ""
    /\ SUPERVISOR_TOKEN = ""

\* the snapshot grows by one record.  A process gets a snapshot only through
\* a request that carries the credential; _get_report of app/main.py never
\* sends one.  Records with missing or null fields are drawn for the callers
\* of analyze_health.
AddState(r) ==
    /\ pc = "input"
    /\ running # "main"
    /\ running = "" \/ SUPERVISOR_TOKEN # ""
    /\ \/ Len(states) < MaxAnyStates /\ running # "server"
       \/ /\ Len(states) < MaxStates
          /\ r \in CoreRecords
          /\ \A i \in 1..Len(states) : states[i] \in CoreRecords
    /\ states' = Append(states, r)
    /\ UNCHANGED <<pc, health, report, data, upstream, calls, running,
                   SUPERVISOR_TOKEN>>

\* a direct call of analyze_health(states)
Analyze ==
    /\ pc = "input"
    /\ running = ""
    /\ LET res == analyze_health(states)
       IN IF res.raised # ""
          THEN /\ pc' = res.raised
               /\ health' = health
          ELSE /\ pc' = "analyzed"
               /\ health' = res.value
    /\ UNCHANGED <<states, report, data, upstream, calls, running,
                   SUPERVISOR_TOKEN>>

\* a direct call of build_report(health)
BuildReport ==
    /\ pc = "analyzed"
    /\ report' = build_report(health)
    /\ pc' = "reported"
    /\ UNCHANGED <<states, health, data, upstream, calls, running,
                   SUPERVISOR_TOKEN>>

(***************************************************************************)
(* The request handlers of app/__init__.py (index, api_report) and of      *)
(* app/main.py (_get_report).                                              *)
(***************************************************************************)
\* str(exc) of the exception the try block raised
ExcText(exc) ==
    IF exc = "TypeError" THEN "argument of type 'NoneType' is not iterable"
    ELSE IF exc = "AttributeError" THEN "'NoneType' object has no attribute 'get'"
    ELSE IF exc = "config_error" THEN "GET /config failed"
    ELSE "GET /states failed"

\* the except branch of index and api_report
UnknownData(exc) ==
    [ha_version |-> "unknown",
     entity_count |-> 0,
     health |->
        [severity |-> "unknown",
         unavailable |-> [total_count |-> 0, critical_count |-> 0, by_domain |-> <<>>],
         updates |-> [count |-> 0, items |-> <<>>]],
     report |->
        [headline |-> <<Lit("Unable to determine health")>>,
         description |-> <<Lit(ExcText(exc))>>,
         start_here |-> <<>>,
         details |-> <<>>]]

\* mutant: a failed GET /states taken for an empty list of states
TryReport_empty_states(outcome, sts) ==
    IF outcome = "config_error"
    THEN [data |-> UnknownData(outcome), calls |-> <<"get_config">>]
    ELSE LET res == analyze_health(IF outcome = "states_error" THEN <<>> ELSE sts)
         IN IF res.raised # ""
            THEN [data |-> UnknownData(res.raised),
                  calls |-> <<"get_config", "get_states", "analyze_health">>]
            ELSE [data |->
                    [ha_version |-> Get(Config, "version", None),
                     entity_count |-> Len(sts),
                     health |-> res.value,
                     report |-> build_report(res.value)],
                  calls |-> <<"get_config", "get_states", "analyze_health",
                              "build_report">>]

\* the try/except of index and api_report: the response and the calls made
TryReport(outcome, sts) ==
    IF outcome = "config_error"
    THEN [data |-> UnknownData(outcome), calls |-> <<"get_config">>]
    ELSE IF outcome = "states_error"
    THEN [data |-> UnknownData(outcome), calls |-> <<"get_config", "get_states">>]
    ELSE LET res == analyze_health(sts)
         IN IF res.raised # ""
            THEN [data |-> UnknownData(res.raised),
                  calls |-> <<"get_config", "get_states", "analyze_health">>]
            ELSE [data |->
                    [ha_version |-> Get(Config, "version", None),
                     entity_count |-> Len(sts),
                     health |-> res.value,
                     report |-> build_report(res.value)],
                  calls |-> <<"get_config", "get_states", "analyze_health",
                              "build_report">>]

\* GET / : render_template("index.html", data=data)
Index(outcome) ==
    /\ pc = "input"
    /\ running = "app"
    /\ LET res == TryReport(outcome, states)
       IN data' = res.data /\ calls' = res.calls
    /\ upstream' = outcome
    /\ pc' = "responded"
    /\ UNCHANGED <<states, health, report, running, SUPERVISOR_TOKEN>>

\* GET /api/report : jsonify(data)
ApiReport(outcome) ==
    /\ pc = "input"
    /\ running = "app"
    /\ LET res == TryReport(outcome, states)
       IN data' = res.data /\ calls' = res.calls
    /\ upstream' = outcome
    /\ pc' = "responded"
    /\ UNCHANGED <<states, health, report, running, SUPERVISOR_TOKEN>>

\* the except branch of _get_report
MainUnknownData(e) ==
    [ha_version |-> "unknown",
     entity_count |-> 0,
     severity |-> "unknown",
     generated_at_iso |-> "",
     error |-> e,
     unavailable |->
        [total_count |-> 0, critical_count |-> 0, by_domain |-> <<>>,
         sample_entities |-> <<>>],
     updates |-> [count |-> 0, items |-> <<>>],
     issues |->
        <<[id |-> "unknown",
           title |-> "Health status could not be determined",
           severity |-> "unknown",
           summary |-> "HomeOps could not query Home Assistant. Check add-on logs and Supervisor connectivity.",
           start_here |-> <<"Open the HomeOps add-on logs and verify it is running.">>,
           evidence |-> [error |-> e]]>>]

\* _get_report of app/main.py: HAClient(timeout_s=10) is the first statement
\* of the try block and HAClient.__init__ takes no argument, so the call
\* raises TypeError before any request is sent and the except branch answers
GetReport(outcome) ==
    /\ pc = "input"
    /\ running = "main"
    /\ data' = MainUnknownData("HAClient.__init__() got an unexpected keyword argument 'timeout_s'")
    /\ calls' = <<"HAClient">>
    /\ upstream' = outcome
    /\ pc' = "responded"
    /\ UNCHANGED <<states, health, report, running, SUPERVISOR_TOKEN>>

(***************************************************************************)
(* Process start: the entry points and what each does with the credential. *)
(***************************************************************************)
\* mutant: the constructor builds its headers without testing the token
HAClient_init_no_check(token) ==
    [raised |-> "",
     headers |-> [Authorization |-> <<Lit("Bearer "), Lit(token)>>],
     base_url |-> "http://supervisor/core/api"]

\* HAClient.__init__: raises RuntimeError when SUPERVISOR_TOKEN is not set
HAClient_init(token) ==
    IF token = "" THEN [raised |-> "RuntimeError"]
    ELSE [raised |-> "",
          headers |-> [Authorization |-> <<Lit("Bearer "), Lit(token)>>],
          base_url |-> "http://supervisor/core/api"]

\* create_app of app/__init__.py: client = HAClient() runs while the app is
\* built, so its exception leaves create_app and no route is ever served
CreateApp(token) ==
    /\ pc = "input"
    /\ running = ""
    /\ states = <<>>
    /\ SUPERVISOR_TOKEN' = token
    /\ IF HAClient_init(token).raised # ""
       THEN pc' = HAClient_init(token).raised /\ running' = running
       ELSE pc' = pc /\ running' = "app"
    /\ UNCHANGED <<states, health, report, data, upstream, calls>>

\* create_app of app/main.py: builds the routes and reads no credential
MainCreateApp(token) ==
    /\ pc = "input"
    /\ running = ""
    /\ states = <<>>
    /\ SUPERVISOR_TOKEN' = token
    /\ running' = "main"
    /\ UNCHANGED <<states, pc, health, report, data, upstream, calls>>

\* server.py: SUPERVISOR_TOKEN = os.environ.get("SUPERVISOR_TOKEN", "") at
\* import, then main() listens; nothing tests the token before serving
ServerMain(token) ==
    /\ pc = "input"
    /\ running = ""
    /\ states = <<>>
    /\ SUPERVISOR_TOKEN' = token
    /\ running' = "server"
    /\ UNCHANGED <<states, pc, health, report, data, upstream, calls>>

(***************************************************************************)
(* The request handler of server.py (Handler.do_GET).                      *)
(***************************************************************************)
p_root == <<"/">>
p_index == <<"/", "i", "n", "d", "e", "x", ".", "h", "t", "m", "l">>
p_healthz == <<"/", "h", "e", "a", "l", "t", "h", "z">>
p_doctor == <<"/", "a", "p", "i", "/", "d", "o", "c", "t", "o", "r">>
p_other == <<"/", "x">>

Paths == {p_root, p_index, p_healthz, p_doctor, p_doctor \o p_other, p_other}

\* what the two upstream requests of one GET /api/doctor can do: both answer,
\* or one raises HTTPError, URLError, or another exception (a timeout)
DoctorOutcomes == {"ok", "HTTPError", "URLError", "Exception"}

\* str.startswith
StartsWith(s, prefix) ==
    Len(s) >= Len(prefix) /\ SubSeq(s, 1, Len(prefix)) = prefix

\* the message of the RuntimeError _ha_get raises without a token
TokenMissingText ==
    "SUPERVISOR_TOKEN is missing. Did you set homeassistant_api: true in config.yaml?"

\* counts[domain] = counts.get(domain, 0) + 1, in insertion order
CountAppend(counts, domain) ==
    IF \E i \in 1..Len(counts) : counts[i].domain = domain
    THEN [i \in 1..Len(counts) |->
            IF counts[i].domain = domain
            THEN [counts[i] EXCEPT !.count = @ + 1]
            ELSE counts[i]]
    ELSE Append(counts, [domain |-> domain, count |-> 1])

\* the loop of _safe_domain_counts; `"." in eid` raises TypeError on a null
\* entity_id
RECURSIVE DomainCountLoop(_, _)
DomainCountLoop(acc, rest) ==
    IF rest = <<>> \/ acc.raised # "" THEN acc
    ELSE LET eid == Get(Head(rest), "entity_id", Chars(<<>>))
         IN IF eid.t # "str"
            THEN [acc EXCEPT !.raised = "TypeError"]
            ELSE IF FirstDot(eid.c, 1) # 0
            THEN DomainCountLoop(
                    [acc EXCEPT !.counts =
                        CountAppend(@, SubSeq(eid.c, 1, FirstDot(eid.c, 1) - 1))],
                    Tail(rest))
            ELSE DomainCountLoop(acc, Tail(rest))

\* sorted(counts.items(), key=lambda kv: kv[1], reverse=True), stable
RECURSIVE InsertByCountDesc(_, _)
InsertByCountDesc(sorted, item) ==
    IF sorted = <<>> THEN <<item>>
    ELSE IF Head(sorted).count >= item.count
         THEN <<Head(sorted)>> \o InsertByCountDesc(Tail(sorted), item)
         ELSE <<item>> \o sorted

RECURSIVE SortedByCountDesc(_)
SortedByCountDesc(items) ==
    IF items = <<>> THEN <<>>
    ELSE InsertByCountDesc(SortedByCountDesc(SubSeq(items, 1, Len(items) - 1)),
                           items[Len(items)])

\* the slice [:12] of _safe_domain_counts
TOP_DOMAINS == 12

safe_domain_counts(sts) ==
    LET acc == DomainCountLoop([counts |-> <<>>, raised |-> ""], sts)
        sorted == SortedByCountDesc(acc.counts)
    IN IF acc.raised # "" THEN [raised |-> acc.raised]
       ELSE [raised |-> "",
             value |-> SubSeq(sorted, 1,
                              IF Len(sorted) < TOP_DOMAINS THEN Len(sorted)
                              ELSE TOP_DOMAINS)]

\* self._json(obj, code)
JsonResponse(code, obj) ==
    [code |-> code, content_type |-> "application/json; charset=utf-8",
     body |-> obj]

\* the except branches of the /api/doctor block
DoctorError(exc, detail) ==
    IF exc = "HTTPError"
    THEN JsonResponse(502, [error |-> <<Lit("HTTPError "), Num(503)>>,
                            detail |-> detail])
    ELSE IF exc = "URLError"
    THEN JsonResponse(502, [error |-> <<Lit("URLError")>>, detail |-> detail])
    ELSE JsonResponse(500, [error |-> <<Lit("Exception")>>, detail |-> detail])

\* the /api/doctor block: _ha_get raises RuntimeError before any request when
\* SUPERVISOR_TOKEN is empty, and `except Exception` answers it with 500
doctor(outcome, token, sts) ==
    IF token = "" THEN DoctorError("Exception", TokenMissingText)
    ELSE IF outcome # "ok" THEN DoctorError(outcome, "upstream request failed")
    ELSE IF safe_domain_counts(sts).raised # ""
    THEN DoctorError("Exception", ExcText(safe_domain_counts(sts).raised))
    ELSE JsonResponse(200,
            [ha_version |-> Get(Config, "version", None),
             location_name |-> Get(Config, "location_name", None),
             time_zone |-> Get(Config, "time_zone", None),
             unit_system |-> Get(Config, "unit_system", None),
             entity_count |-> Len(sts),
             domain_counts |-> safe_domain_counts(sts).value,
             homeops_uptime_s |-> 0])

\* Handler.do_GET
do_GET(path, outcome, token, sts) ==
    IF path \in {p_root, p_index}
    THEN [code |-> 200, content_type |-> "text/html; charset=utf-8",
          body |-> "INDEX_HTML"]
    ELSE IF path = p_healthz THEN JsonResponse(200, [ok |-> TRUE])
    ELSE IF StartsWith(path, p_doctor) THEN doctor(outcome, token, sts)
    ELSE JsonResponse(404, [error |-> <<Lit("Not found")>>])

\* one GET served by server.py
DoGet(path, outcome) ==
    /\ pc = "input"
    /\ running = "server"
    /\ data' = do_GET(path, outcome, SUPERVISOR_TOKEN, states)
    /\ upstream' = IF StartsWith(path, p_doctor) THEN outcome ELSE ""
    /\ pc' = "answered"
    /\ UNCHANGED <<states, health, report, calls, running, SUPERVISOR_TOKEN>>

Next ==
    \/ \E r \in Records : AddState(r)
    \/ Analyze
    \/ BuildReport
    \/ \E token \in Tokens : CreateApp(token)
    \/ \E token \in Tokens : MainCreateApp(token)
    \/ \E token \in Tokens : ServerMain(token)
    \/ \E outcome \in Outcomes : Index(outcome)
    \/ \E outcome \in Outcomes : ApiReport(outcome)
    \/ \E outcome \in Outcomes : GetReport(outcome)
    \/ \E path \in Paths, outcome \in DoctorOutcomes : DoGet(path, outcome)

Spec == Init /\ [][Next]_vars

(***************************************************************************)
(* What the claims say about a record, stated on the record itself.        *)
(***************************************************************************)
Summarised == pc \in {"analyzed", "reported"}

\* the string bound to key, "" when the key is missing or null
FieldStr(d, key) ==
    IF key \in DOMAIN d /\ d[key].t = "str" THEN d[key].s ELSE ""

\* the characters of entity_id, none when it is missing or null
IdChars(r) ==
    IF "entity_id" \in DOMAIN r /\ r["entity_id"].t = "str"
    THEN r["entity_id"].c ELSE <<>>

AttrsOf(r) ==
    IF "attributes" \in DOMAIN r /\ r["attributes"].t = "dict"
    THEN r["attributes"].d ELSE <<>>

HasPrefix(s, p) == Len(s) >= Len(p) /\ SubSeq(s, 1, Len(p)) = p

\* the record's entity_id reads "<d>.<rest>" (d holds no "."), or holds no
\* "." at all when d is "unknown"
InDomain(r, d) ==
    \/ HasPrefix(IdChars(r), d \o c_dot)
    \/ d = c_unknown /\ \A i \in 1..Len(IdChars(r)) : IdChars(r)[i] # "."

StateUnavailable(r) == FieldStr(r, "state") \in {"unavailable", "unknown"}

CountsAsCritical(r) ==
    StateUnavailable(r) /\ \E d \in IMPORTANT_DOMAINS : InDomain(r, d)

\* state "on", or latest_version and installed_version both non-empty and unequal
PendingUpdate(r) ==
    /\ InDomain(r, c_update)
    /\ \/ FieldStr(r, "state") = "on"
       \/ /\ FieldStr(AttrsOf(r), "latest_version") # ""
          /\ FieldStr(AttrsOf(r), "installed_version") # ""
          /\ FieldStr(AttrsOf(r), "latest_version")
                # FieldStr(AttrsOf(r), "installed_version")

RECURSIVE SumCounts(_)
SumCounts(by_domain) ==
    IF by_domain = <<>> THEN 0
    ELSE Head(by_domain).count + SumCounts(Tail(by_domain))

(***************************************************************************)
(* C1: whenever analyze_health returns, severity is "critical" iff         *)
(* critical_count >= 5, "warning" iff it is not critical and               *)
(* (critical_count is 1..4 or updates.count > 0), "healthy" in every other *)
(* case, and no other value.                                               *)
(***************************************************************************)
C1_SeverityRule ==
    Summarised =>
        LET cc == health.unavailable.critical_count
            uc == health.updates.count
        IN /\ health.severity \in {"critical", "warning", "healthy"}
           /\ (health.severity = "critical") <=> (cc >= 5)
           /\ (health.severity = "warning") <=> (cc < 5 /\ (cc \in 1..4 \/ uc > 0))
           /\ (health.severity = "healthy") <=> (cc = 0 /\ uc = 0)

\* exactly five important-domain entities are unavailable
C1_Witness ==
    /\ pc = "analyzed"
    /\ health.unavailable.critical_count = 5
    /\ health.severity = "critical"

(***************************************************************************)
(* C2: in every returned summary critical_count <= total_count, the counts *)
(* of by_domain add up to total_count, and by_domain has no zero count.    *)
(***************************************************************************)
C2_CountInvariant ==
    Summarised =>
        LET u == health.unavailable
        IN /\ u.critical_count <= u.total_count
           /\ SumCounts(u.by_domain) = u.total_count
           /\ \A i \in 1..Len(u.by_domain) : u.by_domain[i].count # 0

\* a snapshot with critical and non-critical unavailable entities next to
\* entities that are not unavailable
C2_Witness ==
    /\ pc = "analyzed"
    /\ health.unavailable.critical_count > 0
    /\ health.unavailable.critical_count < health.unavailable.total_count
    /\ health.unavailable.total_count < Len(states)

(***************************************************************************)
(* C3: when critical_count > 0, with or without pending updates, the       *)
(* report is the critical-unavailable report: its headline states the      *)
(* critical count and start_here is the fixed three-step checklist.        *)
(***************************************************************************)
C3_CriticalReport ==
    (pc = "reported" /\ health.unavailable.critical_count > 0) =>
        /\ report.headline = <<Num(health.unavailable.critical_count),
                               Lit(" critical devices unavailable")>>
        /\ Len(report.start_here) = 3
        /\ report.start_here = StartHere

\* critical entities and pending updates together, in different numbers
C3_Witness ==
    /\ pc = "reported"
    /\ health.unavailable.critical_count > 0
    /\ health.updates.count > 0
    /\ health.updates.count # health.unavailable.critical_count

\* the three steps the pending-update report is to carry
UpdateChecklist ==
    <<"Review the release notes.", "Take a backup.",
      "Update incrementally and verify.">>

(***************************************************************************)
(* C4: when the summary is not healthy, critical_count is 0 and            *)
(* updates.count > 0, the report is the pending-update report: the         *)
(* headline states the number of pending updates, the report severity is   *)
(* "warning" and start_here is the three-step update checklist.            *)
(***************************************************************************)
C4_PendingUpdateReport ==
    (/\ pc = "reported"
     /\ health.severity # "healthy"
     /\ health.unavailable.critical_count = 0
     /\ health.updates.count > 0) =>
        /\ report.headline[1] = Num(health.updates.count)
        /\ "severity" \in DOMAIN report
        /\ report["severity"] = "warning"
        /\ report.start_here = UpdateChecklist

(***************************************************************************)
(* C5: every report carries a severity field, and when critical_count > 0  *)
(* it is "critical" for critical_count >= 5 and "warning" for 1..4, the    *)
(* severity of the summary.                                                *)
(***************************************************************************)
C5_ReportSeverity ==
    pc = "reported" =>
        /\ "severity" \in DOMAIN report
        /\ health.unavailable.critical_count > 0 =>
                /\ report["severity"] = health.severity
                /\ report["severity"] =
                        IF health.unavailable.critical_count >= 5
                        THEN "critical" ELSE "warning"

(***************************************************************************)
(* C6: a healthy summary gives a report with start_here empty and details  *)
(* the empty string; a snapshot with no unavailable important-domain       *)
(* entity and no pending update (the empty snapshot among them) is healthy.*)
(***************************************************************************)
C6_HealthyReport ==
    /\ (pc = "reported" /\ health.severity = "healthy") =>
            (report.start_here = <<>> /\ report.details = <<>>)
    /\ (/\ Summarised
        /\ \A i \in 1..Len(states) :
                ~CountsAsCritical(states[i]) /\ ~PendingUpdate(states[i])) =>
            health.severity = "healthy"

\* a healthy report for a snapshot that has unavailable entities
C6_Witness ==
    /\ pc = "reported"
    /\ health.severity = "healthy"
    /\ health.unavailable.total_count > 0
    /\ report.start_here = <<>>

(***************************************************************************)
(* The fields of a response, in either response shape: index and           *)
(* api_report nest the summary under "health" and the report under         *)
(* "report"; _get_report keeps the summary at the top level and the        *)
(* suggestions in its one issue.                                           *)
(***************************************************************************)
FromApp == "report" \in DOMAIN data

RespSummary == IF FromApp THEN data["health"] ELSE data

RespStartHere ==
    IF FromApp THEN data["report"].start_here ELSE data["issues"][1].start_here

RespExplains ==
    IF FromApp
    THEN data["report"].headline = <<Lit("Unable to determine health")>>
    ELSE data["issues"][1].title = "Health status could not be determined"

\* the response is complete, says "unknown" and counts nothing, and neither
\* the classifier nor the report builder was called
UnknownResponse ==
    /\ data.entity_count = 0
    /\ RespSummary.severity = "unknown"
    /\ RespSummary.unavailable.total_count = 0
    /\ RespSummary.unavailable.critical_count = 0
    /\ RespSummary.unavailable.by_domain = <<>>
    /\ RespSummary.updates.count = 0
    /\ RespExplains
    /\ \A i \in 1..Len(calls) : calls[i] \notin {"analyze_health", "build_report"}

FetchFailed == pc = "responded" /\ upstream # "ok"

C8_UpdateDetection ==
    Summarised =>
        LET pending == SelectSeq(states, PendingUpdate)
            items == health.updates.items
        IN /\ health.updates.count = Len(pending)
           /\ Len(items) = Len(pending)
           /\ \A i \in 1..Len(items) : items[i].entity_id = IdChars(pending[i])

\* an update entity with state "off" and different versions is counted
C8_Witness ==
    /\ pc = "analyzed"
    /\ Len(states) = 1
    /\ FieldStr(states[1], "state") = "off"
    /\ health.updates.count = 1

\* the first input position of an unavailable record of domain d
FirstSeen(d) ==
    CHOOSE i \in 1..Len(states) :
        /\ StateUnavailable(states[i]) /\ InDomain(states[i], d)
        /\ \A j \in 1..(i - 1) :
                ~(StateUnavailable(states[j]) /\ InDomain(states[j], d))

(***************************************************************************)
(* C9: by_domain is in order of count descending, and domains with the     *)
(* same count are in the order in which their first unavailable entity     *)
(* appears in the input.                                                   *)
(***************************************************************************)
C9_ByDomainOrder ==
    Summarised =>
        LET bd == health.unavailable.by_domain
        IN \A i \in 1..(Len(bd) - 1) :
                \/ bd[i].count > bd[i + 1].count
                \/ /\ bd[i].count = bd[i + 1].count
                   /\ FirstSeen(bd[i].domain) < FirstSeen(bd[i + 1].domain)

\* three domains: the sort moved a later domain to the front and left a tie
C9_Witness ==
    /\ pc = "analyzed"
    /\ Len(health.unavailable.by_domain) = 3
    /\ health.unavailable.by_domain[1].count > health.unavailable.by_domain[2].count
    /\ health.unavailable.by_domain[2].count = health.unavailable.by_domain[3].count
    /\ FirstSeen(health.unavailable.by_domain[1].domain) = 3

(***************************************************************************)
(* C10: analyze_health never raises on a record whose entity_id, state or  *)
(* attributes is missing or null: every call returns a summary.            *)
(***************************************************************************)
C10_NeverRaises == pc \notin {"TypeError", "AttributeError"}

DomainPart(id) ==
    IF \E i \in 1..Len(id) : id[i] = "."
    THEN LET k == CHOOSE i \in 1..Len(id) :
                    id[i] = "." /\ \A j \in 1..(i - 1) : id[j] # "."
         IN SubSeq(id, 1, k - 1)
    ELSE c_unknown

\* the unavailable records of the snapshot whose domain is d
UnavailableIn(d) ==
    {i \in 1..Len(states) :
        StateUnavailable(states[i]) /\ DomainPart(IdChars(states[i])) = d}

(***************************************************************************)
(* C12: the domain of a record is the part of entity_id before its first   *)
(* ".", "unknown" when there is none, and by_domain counts every           *)
(* unavailable record under exactly that domain: "light.k" under "light",  *)
(* "nodomain" under "unknown", "a.b.c" under "a".                          *)
(***************************************************************************)
C12_DomainExtraction ==
    Summarised =>
        LET bd == health.unavailable.by_domain
        IN /\ \A i \in 1..Len(bd) :
                    bd[i].count = Cardinality(UnavailableIn(bd[i].domain))
           /\ \A i \in 1..Len(states) :
                StateUnavailable(states[i]) =>
                    LET id == IdChars(states[i])
                        d == IF id = id_light THEN c_light
                             ELSE IF id = id_nodomain THEN c_unknown
                             ELSE IF id = id_abc THEN <<"a">>
                             ELSE DomainPart(id)
                    IN \E j \in 1..Len(bd) : bd[j].domain = d

\* the unavailable entity "a.b.c" is counted under "a"
C12_Witness ==
    /\ pc = "analyzed"
    /\ Len(states) = 1
    /\ IdChars(states[1]) = id_abc
    /\ health.unavailable.by_domain = <<[domain |-> <<"a">>, count |-> 1]>>

(***************************************************************************)
(* C13: the two classifications are independent and each counts a record   *)
(* at most once: total_count is the number of unavailable records,         *)
(* critical_count the number of those in an important domain and           *)
(* updates.count the number of records with a pending update, so an        *)
(* unavailable update entity whose versions differ is in both tallies.     *)
(***************************************************************************)
C13_IndependentTallies ==
    Summarised =>
        /\ health.unavailable.total_count =
                Cardinality({i \in 1..Len(states) : StateUnavailable(states[i])})
        /\ health.unavailable.critical_count =
                Cardinality({i \in 1..Len(states) : CountsAsCritical(states[i])})
        /\ health.updates.count =
                Cardinality({i \in 1..Len(states) : PendingUpdate(states[i])})

\* one unavailable update entity with different versions: once in each tally
C13_Witness ==
    /\ pc = "analyzed"
    /\ Len(states) = 1
    /\ InDomain(states[1], c_update)
    /\ StateUnavailable(states[1])
    /\ health.unavailable.total_count = 1
    /\ health.updates.count = 1

\* the domains a details text names, with their counts, in order
Named(details) ==
    LET doms == SelectSeq(details, LAMBDA part : "dom" \in DOMAIN part)
        nums == SelectSeq(details, LAMBDA part : "num" \in DOMAIN part)
    IN [i \in 1..Len(doms) |-> [domain |-> doms[i].dom, count |-> nums[i].num]]

====
